---- MODULE Spec2Model ----
(***************************************************************************)
(* State-machine model of visbrain's BrainVisual                           *)
(* (src/visbrain/visuals/BrainVisual.py): the mesh buffers, the hemisphere *)
(* index view, the translucency / alpha render state, the light uniforms,  *)
(* the camera binding, the frames drawn and clean().                       *)
(*                                                                         *)
(* Numbers.  Floats of the source are scaled to integers: alpha and the    *)
(* light coefficients are in hundredths (0.1 is 10, 1.0 is 100).  Vertex   *)
(* coordinates are even integers, so that (max + min) / 2 is exact.        *)
(* Python values whose type a setter tests are tagged records              *)
(* [type |-> ..., val |-> ...].                                            *)
(***************************************************************************)
EXTENDS Integers, Sequences, FiniteSets, TLC

VARIABLES
    vertices,        \* self._vertices : sequence of 3D points
    faces,           \* self._faces : sequence of index triples (0-based)
    lr_vertex,       \* lr_index of set_data, per vertex (local of set_data)
    lr_index,        \* self._lr_index : one flag per face (first vertex left)
    center,          \* self._center
    camratio,        \* self._camratio
    vert_buffer,     \* self._vert_buffer content
    normals_buffer,  \* self._normals_buffer content
    color_buffer,    \* self._color_buffer content
    index_buffer,    \* self._index_buffer content
    hemisphere,      \* self._hemisphere
    translucent,     \* self._translucent
    alpha,           \* self._alpha
    gl_state,        \* the visual's GL state (set_gl_state)
    light,           \* _light_position, _light_color, _light_intensity,
                     \* _coef_ambient, _coef_specular
    shared,          \* uniforms of self.shared_program (frag and vert)
    view_frag,       \* u_light_position of view.view_program.frag
    camera,          \* self._camera
    camera_transform,\* self._camera_transform
    cam_turns,       \* the cameras' own transforms (quarter turns about z)
    dirty,           \* a redraw was requested (Visual.update) and no
                     \* frame was drawn since
    released,        \* clean() deleted the four GPU buffers
    trail,           \* history: how much of the call sequence hemisphere =
                     \* left, right, both the latest setter calls complete
    last             \* the last call: its name, argument and outcome

geomvars == <<vertices, faces, lr_vertex, lr_index, center, camratio, vert_buffer, normals_buffer>>
meshvars == <<geomvars, color_buffer, index_buffer, hemisphere, trail>>
lookvars == <<translucent, alpha, gl_state>>
lightvars == <<light, shared, view_frag>>
camvars == <<camera, camera_transform, cam_turns>>
vars == <<meshvars, lookvars, lightvars, camvars, dirty, released, last>>

(***************************************************************************)
(* Bounds of the model.                                                    *)
(***************************************************************************)
MaxVerts == 2
MaxFaces == 2
MaxTurns == 1

(***************************************************************************)
(* Program constants.                                                      *)
(***************************************************************************)
AlphaCeil == 10
AlphaOpaque == 100

Min(a, b) == IF a <= b THEN a ELSE b

None == [type |-> "NoneType"]
PyNum(n) == [type |-> "float", val |-> n]
PyBool(b) == [type |-> "bool", val |-> b]
PyStr(s) == [type |-> "str", val |-> s]

\* isinstance(value, (int, float)); bool is a subclass of int in Python.
IsNumber(value) == value.type \in {"int", "float", "bool"}
IsBool(value) == value.type = "bool"
NumVal(value) == IF value.type = "bool" THEN (IF value.val THEN 100 ELSE 0) ELSE value.val

Call(op, arg, ok) == [op |-> op, arg |-> arg, ok |-> ok]

(***************************************************************************)
(* Inputs of the geometry operations.                                      *)
(***************************************************************************)
\* Vertex arrays of 1..MaxVerts points <<x, 2x, 0>>: x rising by 2 from 0,
\* falling by 2 to 0, or 2 for every vertex.
Point(x) == <<x, 2 * x, 0>>
Rising(n) == [i \in 1..n |-> Point(2 * (i - 1))]
Falling(n) == [i \in 1..n |-> Point(2 * (n - i))]
Flat(n) == [i \in 1..n |-> Point(2)]
VertexArrays == UNION {{Rising(n), Falling(n), Flat(n)} : n \in 1..MaxVerts}

\* Face arrays.  Ramp(m, a): m faces whose first vertices are a, a + 1, ...
\* and whose other vertices are 0; the index MaxVerts is valid for no vertex
\* array.  Probes: a ramp from 0 with MaxVerts put in the second or third
\* column of one face.
Ramp(m, a) == [i \in 1..m |-> <<a + i - 1, 0, 0>>]
PlainFaces == {Ramp(m, 0) : m \in 0..Min(MaxFaces, MaxVerts)}
Ramps == {<<>>} \cup UNION {{Ramp(m, a) : a \in 0..(MaxVerts - m + 1)} : m \in 1..MaxFaces}
Probes == UNION {{[Ramp(m, 0) EXCEPT ![j][c] = MaxVerts] : j \in 1..m, c \in 2..3} : m \in 1..Min(MaxFaces, MaxVerts)}
FaceArrays == Ramps \cup Probes

NdArray(s) == [type |-> "ndarray", val |-> s]
UnitNormal == <<0, 0, 100>>
GivenNormal == <<0, 100, 0>>
NormalInputs == {None} \cup {NdArray([i \in 1..k |-> GivenNormal]) : k \in 1..MaxVerts}
\* Flags given by the caller: all left, or alternating from left or right.
LrPatterns(k) == {[i \in 1..k |-> TRUE], [i \in 1..k |-> i % 2 = 1], [i \in 1..k |-> i % 2 = 0]}
LrInputs == {None} \cup {NdArray(s) : s \in UNION {LrPatterns(k) : k \in 1..MaxVerts}}
Modes == {"left", "both", "right"}
ModeInputs == Modes \cup {"top"}

\* The calls of set_data: each varies the faces, the hemisphere flags or the
\* normals of a call with plain faces.
SetDataInputs ==
    [v : VertexArrays, f : FaceArrays, n : {None}, value : ModeInputs, lr : {None}]
    \cup [v : {Rising(MaxVerts)}, f : {Ramp(Min(MaxFaces, MaxVerts), 0)}, n : {None}, value : {"both"}, lr : LrInputs]
    \cup [v : VertexArrays, f : PlainFaces, n : NormalInputs, value : {"both"}, lr : {None}]

(***************************************************************************)
(* Array helpers (numpy).                                                  *)
(***************************************************************************)
RECURSIVE SumSeq(_)
SumSeq(s) == IF s = <<>> THEN 0 ELSE Head(s) + SumSeq(Tail(s))

Column(a, c) == [i \in 1..Len(a) |-> a[i][c]]
MaxOf(s) == CHOOSE x \in {s[i] : i \in 1..Len(s)} : \A j \in 1..Len(s) : s[j] <= x
MinOf(s) == CHOOSE x \in {s[i] : i \in 1..Len(s)} : \A j \in 1..Len(s) : x <= s[j]

\* a[mask, :] for a boolean mask of the length of a: the rows kept, in order.
RECURSIVE BoolIndex(_, _)
BoolIndex(a, mask) == IF a = <<>> THEN <<>> ELSE (IF Head(mask) THEN <<Head(a)>> ELSE <<>>) \o BoolIndex(Tail(a), Tail(mask))

\* ~mask
Invert(mask) == [i \in 1..Len(mask) |-> ~mask[i]]

\* np.tile(row_block, (n, 1))
RECURSIVE Tile(_, _)
Tile(block, n) == IF n = 0 THEN <<>> ELSE block \o Tile(block, n - 1)

(***************************************************************************)
(* convert_meshdata (visbrain.utils): checks the geometry and returns it   *)
(* as arrays, with vertex normals when none are given.                     *)
(***************************************************************************)
FacesInRange(f, n) == \A i \in 1..Len(f) : \A c \in 1..3 : f[i][c] < n

convert_meshdata(v, f, n) ==
    IF n # None /\ Len(n.val) # Len(v)
    THEN [ok |-> FALSE, err |-> "DimensionMismatch"]
    ELSE IF ~FacesInRange(f, Len(v))
    THEN [ok |-> FALSE, err |-> "IndexOutOfRange"]
    ELSE [ok |-> TRUE, err |-> "", vertices |-> v, faces |-> f,
          normals |-> IF n = None THEN [i \in 1..Len(v) |-> UnitNormal] ELSE n.val]

(***************************************************************************)
(* set_data, lines 246-269: the fields and buffers computed from converted *)
(* geometry.                                                               *)
(***************************************************************************)
\* Mutant of DerivedLr: a vertex at the mean is not left.
DerivedLr_strict(v) == [i \in 1..Len(v) |-> v[i][1] * Len(v) < SumSeq(Column(v, 1))]

\* vertices[:, 0] <= vertices[:, 0].mean()
DerivedLr(v) == [i \in 1..Len(v) |-> v[i][1] * Len(v) <= SumSeq(Column(v, 1))]

VertexLr(v, lr) == IF lr = None \/ Len(lr.val) # Len(v) THEN DerivedLr(v) ELSE lr.val

\* lr_index[faces[:, 0]]
FaceLr(f, lrv) == [i \in 1..Len(f) |-> lrv[f[i][1] + 1]]

BoxCenter(v) == [c \in 1..3 |-> (MaxOf(Column(v, c)) + MinOf(Column(v, c))) \div 2]
BoxRatio(v) == [c \in 1..3 |-> MaxOf(Column(v, c)) - MinOf(Column(v, c))]
WhiteRows(n) == [i \in 1..n |-> <<1, 1, 1, 1>>]

\* Mutant of hemisphere_index: right without the inversion of the flags.
hemisphere_index_same_mask(value, f, lrf) == IF value = "both" THEN f ELSE BoolIndex(f, lrf)

\* The index the hemisphere setter sends to the index buffer.
hemisphere_index(value, f, lrf) ==
    CASE value = "both" -> f
      [] value = "left" -> BoolIndex(f, lrf)
      [] value = "right" -> BoolIndex(f, Invert(lrf))

(***************************************************************************)
(* set_data(vertices, faces, normals, hemisphere, lr_index), with meshdata *)
(* and invert_normals at their defaults.                                   *)
(***************************************************************************)
\* Lines 244-269: the conversion, then every field and buffer set before
\* the hemisphere setter; nothing is set when the conversion fails.
set_data_assign(v, f, n, lr) ==
    LET md == convert_meshdata(v, f, n) IN
    IF ~md.ok THEN [ok |-> FALSE, err |-> md.err, lr |-> lr]
    ELSE [ok |-> TRUE, err |-> "", lr |-> lr,
          vertices |-> md.vertices,
          faces |-> md.faces,
          center |-> BoxCenter(md.vertices),
          camratio |-> BoxRatio(md.vertices),
          lr_vertex |-> VertexLr(md.vertices, lr),
          lr_index |-> FaceLr(md.faces, VertexLr(md.vertices, lr)),
          vert_buffer |-> md.vertices,
          normals_buffer |-> md.normals,
          color_buffer |-> WhiteRows(Len(md.vertices))]

\* Mutant of set_data_hemisphere: the mode is stored, the index buffer is
\* not sent again.
set_data_hemisphere_stale(value) ==
    IF value \in Modes
    THEN /\ index_buffer' = index_buffer
         /\ hemisphere' = value
         /\ dirty' = TRUE
    ELSE /\ UNCHANGED <<index_buffer, hemisphere, dirty>>

\* The hemisphere setter as set_data runs it on the new faces (line 270).
set_data_hemisphere(value) ==
    IF value \in Modes
    THEN /\ index_buffer' = hemisphere_index(value, faces', lr_index')
         /\ hemisphere' = value
         /\ dirty' = TRUE
    ELSE /\ UNCHANGED <<index_buffer, hemisphere, dirty>>

\* What `last` keeps of a set_data call: the hemisphere and lr_index
\* arguments, whether every face entry was below len(vertices), and the
\* error raised, if any.
SetDataError(r, value) == IF ~r.ok THEN r.err ELSE IF value \notin Modes THEN "AssertionError" ELSE ""
SetDataCall(r, value, in_range) == Call("set_data", [value |-> value, lr |-> r.lr, faces_in_range |-> in_range, err |-> SetDataError(r, value)], SetDataError(r, value) = "")

\* Mutant of set_data_store: _hemisphere is stored before the conversion.
set_data_store_early(r, value, in_range) ==
    /\ IF r.ok
       THEN /\ vertices' = r.vertices
            /\ faces' = r.faces
            /\ center' = r.center
            /\ camratio' = r.camratio
            /\ lr_vertex' = r.lr_vertex
            /\ lr_index' = r.lr_index
            /\ vert_buffer' = r.vert_buffer
            /\ normals_buffer' = r.normals_buffer
            /\ color_buffer' = r.color_buffer
            /\ set_data_hemisphere(value)
            /\ trail' = 0
       ELSE /\ hemisphere' = value
            /\ UNCHANGED <<geomvars, color_buffer, index_buffer, trail, dirty>>
    /\ last' = SetDataCall(r, value, in_range)
    /\ UNCHANGED <<lookvars, lightvars, camvars>>

\* The call for the outcome r of lines 244-269.
set_data_store(r, value, in_range) ==
    /\ IF r.ok
       THEN /\ vertices' = r.vertices
            /\ faces' = r.faces
            /\ center' = r.center
            /\ camratio' = r.camratio
            /\ lr_vertex' = r.lr_vertex
            /\ lr_index' = r.lr_index
            /\ vert_buffer' = r.vert_buffer
            /\ normals_buffer' = r.normals_buffer
            /\ color_buffer' = r.color_buffer
            /\ set_data_hemisphere(value)
            /\ trail' = 0
       ELSE /\ UNCHANGED <<meshvars, dirty>>
    /\ last' = SetDataCall(r, value, in_range)
    /\ UNCHANGED <<lookvars, lightvars, camvars>>

set_data(v, f, n, value, lr) == set_data_store(set_data_assign(v, f, n, lr), value, FacesInRange(f, Len(v)))

(***************************************************************************)
(* The hemisphere setter.                                                  *)
(***************************************************************************)
\* History of the setter's calls: 1 after left, 2 after left then right,
\* 3 after left, right, both; 0 otherwise.
TrailStep(t, value) ==
    IF value = "left" THEN 1
    ELSE IF value = "right" /\ t = 1 THEN 2
    ELSE IF value = "both" /\ t = 2 THEN 3
    ELSE 0

\* Mutant of hemisphere_frame: the setter keeps the filtered faces as _faces.
hemisphere_frame_in_place == faces' = index_buffer' /\ UNCHANGED <<vertices, lr_vertex, lr_index, center, camratio, vert_buffer, normals_buffer, color_buffer>>

\* What the setter leaves alone (lines 394-403 assign the index buffer and
\* _hemisphere only).
hemisphere_frame == UNCHANGED <<geomvars, color_buffer>>

hemisphere_setter(value) ==
    /\ IF value \in Modes
       THEN /\ index_buffer' = hemisphere_index(value, faces, lr_index)
            /\ dirty' = TRUE
            /\ hemisphere' = value
            /\ trail' = TrailStep(trail, value)
            /\ last' = Call("hemisphere", value, TRUE)
       ELSE /\ UNCHANGED <<index_buffer, hemisphere, dirty, trail>>
            /\ last' = Call("hemisphere", value, FALSE)
    /\ hemisphere_frame
    /\ UNCHANGED <<lookvars, lightvars, camvars>>

(***************************************************************************)
(* set_color(data, color).                                                 *)
(***************************************************************************)
ColorNames == {"white", "red"}
ColorInputs == ColorNames \cup {"#zz"}
ColorRows == {<<1, 0, 0, 1>>, <<0, 0, 1, 0>>}
Vector(s) == [type |-> "ndarray", ndim |-> 1, val |-> s]
Matrix(s) == [type |-> "ndarray", ndim |-> 2, val |-> s]
VectorInputs == {Vector([i \in 1..k |-> i % 2]) : k \in 1..MaxVerts}
RgbaInputs == {Matrix(s) : s \in UNION {[1..k -> ColorRows] : k \in 1..(MaxVerts + 1)}}
RgbInputs == {Matrix([i \in 1..k |-> <<1, 0, 0>>]) : k \in 1..MaxVerts}
MatrixInputs == RgbaInputs \cup RgbInputs

\* color2vb (visbrain.utils): a color name as one RGBA row.
color2vb(color, length) ==
    IF color \notin ColorNames
    THEN [ok |-> FALSE]
    ELSE [ok |-> TRUE, val |-> <<IF color = "white" THEN <<1, 1, 1, 1>> ELSE <<1, 0, 0, 1>>>>]

\* array2colormap (visbrain.utils): one RGBA row per scalar.
array2colormap(data) == [i \in 1..Len(data) |-> <<data[i], 0, 1 - data[i], 1>>]

\* vispy_array (visbrain.utils): the array as contiguous float32.
vispy_array(a) == a

\* data.shape[1] of a non-empty 2-D array
Shape1(data) == Len(data.val[1])

\* Mutant of set_color_col: the uniform color is sent without np.tile.
set_color_col_untiled(data, color) ==
    IF data = None THEN color
    ELSE IF data.ndim = 1 THEN array2colormap(data.val)
    ELSE IF data.ndim > 1 /\ Shape1(data) = 4 THEN vispy_array(data.val)
    ELSE data.val

\* Lines 293-300: the array sent to the color buffer.
set_color_col(data, color) ==
    IF data = None THEN Tile(color, Len(vertices))
    ELSE IF data.ndim = 1 THEN array2colormap(data.val)
    ELSE IF data.ndim > 1 /\ Shape1(data) = 4 THEN vispy_array(data.val)
    ELSE data.val

set_color(data, color) ==
    LET c == color2vb(color, Len(vertices)) IN
    /\ IF c.ok
       THEN /\ color_buffer' = vispy_array(set_color_col(data, c.val))
            /\ dirty' = TRUE
            /\ last' = Call("set_color", [data |-> data, color |-> color], TRUE)
       ELSE /\ UNCHANGED <<color_buffer, dirty>>
            /\ last' = Call("set_color", [data |-> data, color |-> color], FALSE)
    /\ UNCHANGED <<geomvars, index_buffer, hemisphere, trail>>
    /\ UNCHANGED <<lookvars, lightvars, camvars>>

(***************************************************************************)
(* set_alpha(alpha, index).  self._colFaces is assigned nowhere in the     *)
(* class (its only assignment, line 421, is commented out).                *)
(***************************************************************************)
colFaces == [assigned |-> FALSE, val |-> <<>>]

AlphaInputs == {20, 50}
IndexInputs == {None} \cup {NdArray(ix) : ix \in (SUBSET (0..(MaxVerts - 1))) \ {{}}}

\* colFaces[index, -1] = alpha (every row when index is None)
WithAlpha(rows, a, index) ==
    [i \in 1..Len(rows) |-> IF index = None \/ (i - 1) \in index.val THEN [rows[i] EXCEPT ![4] = a] ELSE rows[i]]

set_alpha(a, index) ==
    /\ IF colFaces.assigned
       THEN /\ color_buffer' = WithAlpha(colFaces.val, a, index)
            /\ dirty' = TRUE
            /\ last' = Call("set_alpha", [alpha |-> a, index |-> index, err |-> ""], TRUE)
       ELSE /\ UNCHANGED <<color_buffer, dirty>>
            /\ last' = Call("set_alpha", [alpha |-> a, index |-> index, err |-> "AttributeError"], FALSE)
    /\ UNCHANGED <<geomvars, index_buffer, hemisphere, trail>>
    /\ UNCHANGED <<lookvars, lightvars, camvars>>

(***************************************************************************)
(* Translucency and alpha.                                                 *)
(***************************************************************************)
AlphaValues == {PyNum(-20), PyNum(5), PyNum(10), PyNum(20), PyNum(90), PyNum(100), PyStr("0.5")}
TranslucentValues == {PyBool(TRUE), PyBool(FALSE), PyNum(100)}

\* Mutant of alpha_clamp: the translucent branch keeps the requested value.
alpha_clamp_unclamped(value, tr) == IF tr THEN value ELSE AlphaOpaque

\* Line 455: min(value, .1) if self._translucent else 1.
alpha_clamp(value, tr) == IF tr THEN Min(value, AlphaCeil) ELSE AlphaOpaque

\* Lines 435 and 438: set_gl_state('translucent', depth_test=..., cull_face=False)
translucent_gl_state(value) == [preset |-> "translucent", depth_test |-> ~value, cull_face |-> FALSE, blend |-> TRUE]

\* Lines 436 and 439: the alpha the translucent setter asks for.
translucent_alpha(value) == IF value THEN AlphaCeil ELSE AlphaOpaque

alpha_setter(value) ==
    /\ IF IsNumber(value)
       THEN /\ alpha' = alpha_clamp(NumVal(value), translucent)
            /\ shared' = [shared EXCEPT !.u_alpha = alpha_clamp(NumVal(value), translucent)]
            /\ dirty' = TRUE
            /\ last' = Call("alpha", value, TRUE)
       ELSE /\ UNCHANGED <<alpha, shared, dirty>>
            /\ last' = Call("alpha", value, FALSE)
    /\ UNCHANGED <<translucent, gl_state, light, view_frag>>
    /\ UNCHANGED <<meshvars, camvars>>

translucent_setter(value) ==
    /\ IF IsBool(value)
       THEN /\ gl_state' = translucent_gl_state(value.val)
            /\ translucent' = value.val
            /\ alpha' = alpha_clamp(translucent_alpha(value.val), value.val)
            /\ shared' = [shared EXCEPT !.u_alpha = alpha_clamp(translucent_alpha(value.val), value.val)]
            /\ dirty' = TRUE
            /\ last' = Call("translucent", value, TRUE)
       ELSE /\ UNCHANGED <<gl_state, translucent, alpha, shared, dirty>>
            /\ last' = Call("translucent", value, FALSE)
    /\ UNCHANGED <<light, view_frag>>
    /\ UNCHANGED <<meshvars, camvars>>

(***************************************************************************)
(* Light setters.                                                          *)
(***************************************************************************)
LightPositions == {<<100, 100, 100>>, <<0, 100, 0>>, <<100, 100>>}
LightColors == {<<1, 1, 1, 1>>, <<1, 0, 0, 1>>, <<1, 1, 1>>}
LightIntensities == {<<1, 1, 1>>, <<2, 2, 2>>, <<1, 1, 1, 1>>}
AmbientValues == {PyNum(5), PyNum(50), PyStr("0.05")}
SpecularValues == {PyNum(50), PyNum(100), PyStr("0.5")}

light_frame == UNCHANGED <<meshvars, lookvars, camvars, view_frag>>

light_position_setter(value) ==
    /\ IF Len(value) = 3
       THEN /\ shared' = [shared EXCEPT !.u_light_position = value]
            /\ light' = [light EXCEPT !.position = value]
            /\ dirty' = TRUE
            /\ last' = Call("light_position", value, TRUE)
       ELSE /\ UNCHANGED <<shared, light, dirty>>
            /\ last' = Call("light_position", value, FALSE)
    /\ light_frame

\* Mutant of light_color_setter: the uniform is set without self.update().
light_color_setter_quiet(value) ==
    /\ IF Len(value) = 4
       THEN /\ shared' = [shared EXCEPT !.u_light_color = value]
            /\ light' = [light EXCEPT !.color = value]
            /\ dirty' = dirty
            /\ last' = Call("light_color", value, TRUE)
       ELSE /\ UNCHANGED <<shared, light, dirty>>
            /\ last' = Call("light_color", value, FALSE)
    /\ light_frame

light_color_setter(value) ==
    /\ IF Len(value) = 4
       THEN /\ shared' = [shared EXCEPT !.u_light_color = value]
            /\ light' = [light EXCEPT !.color = value]
            /\ dirty' = TRUE
            /\ last' = Call("light_color", value, TRUE)
       ELSE /\ UNCHANGED <<shared, light, dirty>>
            /\ last' = Call("light_color", value, FALSE)
    /\ light_frame

light_intensity_setter(value) ==
    /\ IF Len(value) = 3
       THEN /\ shared' = [shared EXCEPT !.u_light_intensity = value]
            /\ light' = [light EXCEPT !.intensity = value]
            /\ dirty' = TRUE
            /\ last' = Call("light_intensity", value, TRUE)
       ELSE /\ UNCHANGED <<shared, light, dirty>>
            /\ last' = Call("light_intensity", value, FALSE)
    /\ light_frame

coef_ambient_setter(value) ==
    /\ IF IsNumber(value)
       THEN /\ shared' = [shared EXCEPT !.u_coef_ambient = NumVal(value)]
            /\ light' = [light EXCEPT !.coef_ambient = NumVal(value)]
            /\ dirty' = TRUE
            /\ last' = Call("coef_ambient", value, TRUE)
       ELSE /\ UNCHANGED <<shared, light, dirty>>
            /\ last' = Call("coef_ambient", value, FALSE)
    /\ light_frame

coef_specular_setter(value) ==
    /\ IF IsNumber(value)
       THEN /\ shared' = [shared EXCEPT !.u_coef_specular = NumVal(value)]
            /\ light' = [light EXCEPT !.coef_specular = NumVal(value)]
            /\ dirty' = TRUE
            /\ last' = Call("coef_specular", value, TRUE)
       ELSE /\ UNCHANGED <<shared, light, dirty>>
            /\ last' = Call("coef_specular", value, FALSE)
    /\ light_frame

(***************************************************************************)
(* Camera binding and the render-preparation step.                         *)
(***************************************************************************)
Cameras == {"cam1", "cam2"}
NoCamera == "None"
NullTransform == "NullTransform"
CameraInputs == Cameras \cup {NoCamera}

\* Mutant of set_camera_binding: None resets the binding.
set_camera_binding_clearing(c) == IF c # NoCamera THEN [camera |-> c, transform |-> c, update |-> TRUE] ELSE [camera |-> NoCamera, transform |-> NullTransform, update |-> TRUE]

\* Lines 333-336: what set_camera stores for its argument.
set_camera_binding(c) == IF c # NoCamera THEN [camera |-> c, transform |-> c, update |-> TRUE] ELSE [camera |-> camera, transform |-> camera_transform, update |-> FALSE]

set_camera(c) ==
    /\ camera' = set_camera_binding(c).camera
    /\ camera_transform' = set_camera_binding(c).transform
    /\ dirty' = (dirty \/ set_camera_binding(c).update)
    /\ last' = Call("set_camera", c, TRUE)
    /\ UNCHANGED <<meshvars, lookvars, lightvars, cam_turns>>

\* A quarter turn about z of a 4-vector.
RECURSIVE Turn(_, _)
Turn(k, p) == IF k = 0 THEN p ELSE Turn(k - 1, <<0 - p[2], p[1], p[3], p[4]>>)

\* transform.map(coords): NullTransform returns its argument; a camera's
\* matrix transform maps the coordinates as a 4-vector (w = 1).
transform_map(t, p) == IF t = NullTransform THEN p ELSE Turn(cam_turns[t], <<p[1], p[2], p[3], 1>>)

\* x[0:-1]
DropLast(x) == SubSeq(x, 1, Len(x) - 1)

\* Lines 361-363.  `last` keeps the call the step follows.
prepare_light_position == DropLast(transform_map(camera_transform, light.position))

\* Mutant of prepare_draw: the pushed position is stored as _light_position.
prepare_draw_storing ==
    /\ view_frag' = prepare_light_position
    /\ light' = [light EXCEPT !.position = prepare_light_position]
    /\ last' = Call("_prepare_draw", <<last.op, IF last.op = "set_camera" THEN last.arg ELSE "">>, TRUE)
    /\ UNCHANGED <<meshvars, lookvars, camvars, shared, dirty>>

prepare_draw ==
    /\ view_frag' = prepare_light_position
    /\ last' = Call("_prepare_draw", <<last.op, IF last.op = "set_camera" THEN last.arg ELSE "">>, TRUE)
    /\ UNCHANGED <<meshvars, lookvars, camvars, light, shared, dirty>>

\* The user turns a camera: its transform changes in place.
rotate_camera(c) ==
    /\ cam_turns[c] < MaxTurns
    /\ cam_turns' = [cam_turns EXCEPT ![c] = cam_turns[c] + 1]
    /\ last' = Call("rotate", c, TRUE)
    /\ UNCHANGED <<meshvars, lookvars, lightvars, camera, camera_transform, dirty>>

(***************************************************************************)
(* clean() and draw().  clean deletes the four buffers and keeps no record *)
(* of it; draw runs Visual.draw, which prepares the frame and draws with   *)
(* the buffers whatever their state: on deleted buffers the outcome is the *)
(* GL layer's, a frame drawn from nothing or an error raised by it.        *)
(***************************************************************************)
clean ==
    /\ released' = TRUE
    /\ last' = Call("clean", "", TRUE)
    /\ UNCHANGED <<meshvars, lookvars, lightvars, camvars, dirty>>

\* What a draw call can come to: TRUE for a frame drawn without an error.
DrawOutcomes == IF released THEN {TRUE, FALSE} ELSE {TRUE}

draw(ok) ==
    /\ view_frag' = prepare_light_position
    /\ dirty' = FALSE
    /\ last' = Call("draw", "", ok)
    /\ UNCHANGED <<meshvars, lookvars, camvars, light, shared, released>>

(***************************************************************************)
(* Construction: __init__ with its default arguments and a geometry.       *)
(***************************************************************************)
CtorVertices == Rising(MaxVerts)
CtorFaces == Ramp(Min(MaxFaces, MaxVerts), 0)

Init ==
    /\ vertices = CtorVertices
    /\ faces = CtorFaces
    /\ hemisphere \in Modes
    /\ center = BoxCenter(vertices)
    /\ camratio = BoxRatio(vertices)
    /\ lr_vertex = VertexLr(vertices, None)
    /\ lr_index = FaceLr(faces, lr_vertex)
    /\ vert_buffer = vertices
    /\ normals_buffer = [i \in 1..Len(vertices) |-> UnitNormal]
    /\ color_buffer = WhiteRows(Len(vertices))
    /\ index_buffer = hemisphere_index(hemisphere, faces, lr_index)
    /\ trail = 0
    /\ translucent = TRUE
    /\ alpha = AlphaOpaque
    /\ gl_state = [preset |-> "translucent", depth_test |-> TRUE, cull_face |-> FALSE, blend |-> TRUE]
    /\ light = [position |-> <<100, 100, 100>>, color |-> <<1, 1, 1, 1>>, intensity |-> <<1, 1, 1>>, coef_ambient |-> 5, coef_specular |-> 50]
    /\ shared = [u_alpha |-> AlphaOpaque, u_light_position |-> <<100, 100, 100>>, u_light_color |-> <<1, 1, 1, 1>>, u_light_intensity |-> <<1, 1, 1>>, u_coef_ambient |-> 5, u_coef_specular |-> 50]
    /\ view_frag = <<>>
    /\ camera = NoCamera
    /\ camera_transform = NullTransform
    /\ cam_turns = [c \in Cameras |-> 0]
    /\ dirty = TRUE
    /\ released = FALSE
    /\ last = Call("__init__", "", TRUE)

(***************************************************************************)
(* Actions: each operation with its inputs.                                *)
(***************************************************************************)
SetData == \E in \in SetDataInputs : set_data(in.v, in.f, in.n, in.value, in.lr) /\ UNCHANGED released
SetHemisphere == \E value \in ModeInputs : hemisphere_setter(value) /\ UNCHANGED released
SetColor == \E color \in ColorInputs : (set_color(None, color) \/ (\E data \in VectorInputs : set_color(data, color)) \/ (\E data \in MatrixInputs : set_color(data, color))) /\ UNCHANGED released
SetAlpha == \E a \in AlphaInputs, index \in IndexInputs : set_alpha(a, index) /\ UNCHANGED released
SetTranslucent == \E value \in TranslucentValues : translucent_setter(value) /\ UNCHANGED released
SetAlphaProperty == \E value \in AlphaValues : alpha_setter(value) /\ UNCHANGED released
SetLightPosition == \E value \in LightPositions : light_position_setter(value) /\ UNCHANGED released
SetLightColor == \E value \in LightColors : light_color_setter(value) /\ UNCHANGED released
SetLightIntensity == \E value \in LightIntensities : light_intensity_setter(value) /\ UNCHANGED released
SetCoefAmbient == \E value \in AmbientValues : coef_ambient_setter(value) /\ UNCHANGED released
SetCoefSpecular == \E value \in SpecularValues : coef_specular_setter(value) /\ UNCHANGED released
SetCamera == \E c \in CameraInputs : set_camera(c) /\ UNCHANGED released
PrepareDraw == prepare_draw /\ UNCHANGED released
Clean == clean
Draw == \E ok \in DrawOutcomes : draw(ok)
RotateCamera == \E c \in Cameras : rotate_camera(c) /\ UNCHANGED released

\* set_data of plain geometry: no normals, no flags, every face in range.
SetPlainData == \E v \in VertexArrays, f \in PlainFaces : set_data(v, f, None, "both", None) /\ UNCHANGED released

\* set_data with hemisphere flags given or not, on every vertex array.
SetFlaggedData == (\E v \in VertexArrays, f \in PlainFaces, lr \in LrInputs : set_data(v, f, None, "both", lr)) /\ UNCHANGED released

Next == SetData \/ SetHemisphere \/ SetColor \/ SetAlpha \/ SetTranslucent \/ SetAlphaProperty \/ SetLightPosition \/ SetLightColor \/ SetLightIntensity \/ SetCoefAmbient \/ SetCoefSpecular \/ SetCamera \/ PrepareDraw \/ RotateCamera \/ Clean \/ Draw \/ SetFlaggedData
Spec == Init /\ [][Next]_vars

\* Geometry and hemisphere view.
NextMesh == SetData \/ SetHemisphere
SpecMesh == Init /\ [][NextMesh]_vars

\* The color buffer.
NextColor == SetPlainData \/ SetColor \/ SetAlpha
SpecColor == Init /\ [][NextColor]_vars

\* Translucency, alpha and the light's color, intensity and coefficients.
NextLook == SetTranslucent \/ SetAlphaProperty \/ SetLightColor \/ SetLightIntensity \/ SetCoefAmbient \/ SetCoefSpecular
SpecLook == Init /\ [][NextLook]_vars

\* Camera binding, light position and the render-preparation step.
NextCamera == SetCamera \/ SetLightPosition \/ RotateCamera \/ PrepareDraw
SpecCamera == Init /\ [][NextCamera]_vars

\* set_data with hemisphere flags, and the hemisphere view.
NextFlags == SetFlaggedData \/ SetHemisphere
SpecFlags == Init /\ [][NextFlags]_vars

\* The life of the buffers: writes, frames and clean().
NextLife == SetHemisphere \/ SetColor \/ Draw \/ Clean
SpecLife == Init /\ [][NextLife]_vars

\* Setters and frames: every setter with one or two valid inputs each (the
\* constructor's geometry for set_data, a uniform color for set_color),
\* and draw.
TouchData == set_data(CtorVertices, CtorFaces, None, "both", None) /\ UNCHANGED released
TouchColor == set_color(None, "red") /\ UNCHANGED released
TouchAlphaChannel == set_alpha(20, None) /\ UNCHANGED released
TouchHemisphere == (\E value \in Modes : hemisphere_setter(value)) /\ UNCHANGED released
TouchTranslucent == (\E value \in {PyBool(TRUE), PyBool(FALSE)} : translucent_setter(value)) /\ UNCHANGED released
TouchAlpha == (\E value \in {PyNum(5), PyNum(90)} : alpha_setter(value)) /\ UNCHANGED released
TouchLightPosition == light_position_setter(<<0, 100, 0>>) /\ UNCHANGED released
TouchLightColor == light_color_setter(<<1, 0, 0, 1>>) /\ UNCHANGED released
TouchLightIntensity == light_intensity_setter(<<2, 2, 2>>) /\ UNCHANGED released
TouchCoefAmbient == coef_ambient_setter(PyNum(50)) /\ UNCHANGED released
TouchCoefSpecular == coef_specular_setter(PyNum(100)) /\ UNCHANGED released
TouchCamera == (\E c \in Cameras : set_camera(c)) /\ UNCHANGED released
NextFrame == TouchData \/ TouchColor \/ TouchAlphaChannel \/ TouchHemisphere \/ TouchTranslucent \/ TouchAlpha \/ TouchLightPosition \/ TouchLightColor \/ TouchLightIntensity \/ TouchCoefAmbient \/ TouchCoefSpecular \/ TouchCamera \/ Draw
SpecFrame == Init /\ [][NextFrame]_vars

(***************************************************************************)
(* Claims.                                                                 *)
(***************************************************************************)

\* C1: after a successful `alpha = v` the stored alpha is at most 0.1 when
\* the mesh is translucent and exactly 1.0 when it is not, and the u_alpha
\* uniform holds the same value.
C1_AlphaClamped ==
    (last.op = "alpha" /\ last.ok) =>
        /\ translucent => alpha <= AlphaCeil
        /\ ~translucent => alpha = AlphaOpaque
        /\ shared.u_alpha = alpha

\* C1 witness: translucent, alpha = 0.9 requested, 0.1 stored.
C1_Witness == last.op = "alpha" /\ last.ok /\ last.arg.val = 90 /\ translucent /\ alpha = AlphaCeil

\* C2, as claimed: in every state from construction on, the translucency
\* flag decides the depth test and the alpha.
C2_RenderStateMatchesFlag ==
    /\ translucent => (~gl_state.depth_test /\ alpha <= AlphaCeil)
    /\ ~translucent => (gl_state.depth_test /\ alpha = AlphaOpaque)

\* The faces a hemisphere mode shows: their positions in `faces`, by the
\* flag of each face's first vertex.
FirstIsLeft(i) == lr_vertex[faces[i][1] + 1]
Kept(mode) == {i \in 1..Len(faces) : mode = "both" \/ (mode = "left" /\ FirstIsLeft(i)) \/ (mode = "right" /\ ~FirstIsLeft(i))}

\* buf holds exactly the faces at the positions K, in their order in `faces`.
IsViewOf(buf, K) ==
    /\ Len(buf) = Cardinality(K)
    /\ \A i \in K : buf[Cardinality({j \in K : j <= i})] = faces[i]

\* C3: after a successful hemisphere setter call the index buffer holds the
\* faces of the mode given (all, first vertex left, first vertex right),
\* whatever the mode was before; the left and the right view share no face
\* and together hold every face; left, right, both gives back all faces.
C3_HemisphereView ==
    /\ \A mode \in Modes : IsViewOf(hemisphere_index(mode, faces, lr_index), Kept(mode))
    /\ Len(hemisphere_index("left", faces, lr_index)) + Len(hemisphere_index("right", faces, lr_index)) = Len(faces)
    /\ (last.op = "hemisphere" /\ last.ok) => (hemisphere = last.arg /\ IsViewOf(index_buffer, Kept(last.arg)))
    /\ trail = 3 => index_buffer = faces

\* C3 witness: left, right, both was called on a mesh whose two faces are
\* one left and one right.
C3_Witness == last.op = "hemisphere" /\ last.ok /\ trail = 3 /\ Kept("left") # {} /\ Kept("right") # {}

\* C4: a hemisphere setter call leaves the vertices, the faces, the flags,
\* the bounding box, the vertex, normal and color buffers, the lighting and
\* the camera binding as they were.
C4_HemisphereFrame == [][last'.op = "hemisphere" => UNCHANGED <<geomvars, color_buffer, lookvars, lightvars, camvars>>]_vars

\* C4 witness: a switch to left that kept some faces and dropped others.
C4_Witness == last.op = "hemisphere" /\ last.ok /\ hemisphere = "left" /\ Len(index_buffer) > 0 /\ Len(index_buffer) < Len(faces)

\* C5: a set_data call with a face entry at or above len(vertices) fails and
\* leaves the vertices, faces, flags, bounding box, buffers, index view and
\* mode as they were.
C5_BadFaceRejected == [][(last'.op = "set_data" /\ ~last'.arg.faces_in_range) => (~last'.ok /\ UNCHANGED meshvars)]_vars

\* C5 witness: a call with an out-of-range face entry and a valid mode failed.
C5_Witness == last.op = "set_data" /\ ~last.arg.faces_in_range /\ last.arg.value = "left" /\ last.arg.err = "IndexOutOfRange" /\ hemisphere = "right"

\* A call that passes a mode outside both, left, right.
InvalidModeCall(call) == (call.op = "hemisphere" /\ call.arg \notin Modes) \/ (call.op = "set_data" /\ call.arg.value \notin Modes)

\* C6, as claimed: a hemisphere mode outside both, left, right, given to
\* the hemisphere setter or to set_data, fails and changes nothing.
C6_InvalidModeRejected == [][InvalidModeCall(last') => (~last'.ok /\ UNCHANGED meshvars)]_vars

\* C7, as claimed: the normals buffer, the color buffer and the per-vertex
\* hemisphere flags have as many rows as there are vertices, and every face
\* entry is a vertex index, after any sequence of successful calls.
C7_LengthsAgree ==
    /\ Len(normals_buffer) = Len(vertices)
    /\ Len(color_buffer) = Len(vertices)
    /\ Len(lr_vertex) = Len(vertices)
    /\ \A i \in 1..Len(faces) : \A k \in 1..3 : faces[i][k] \in 0..(Len(vertices) - 1)

\* The rows a set_alpha call selects.
Selected(call, i) == call.arg.index = None \/ (i - 1) \in call.arg.index.val

\* C8, as claimed: set_alpha succeeds, asks for a redraw, and the color
\* buffer after it differs from the one before only in the alpha channel
\* of the selected rows, which holds the value given.
C8_SetAlphaOverwritesAlpha ==
    [][last'.op = "set_alpha" =>
        /\ last'.ok
        /\ dirty'
        /\ Len(color_buffer') = Len(color_buffer)
        /\ \A i \in 1..Len(color_buffer) :
            /\ SubSeq(color_buffer'[i], 1, 3) = SubSeq(color_buffer[i], 1, 3)
            /\ color_buffer'[i][4] = IF Selected(last', i) THEN last'.arg.alpha ELSE color_buffer[i][4]]_vars

\* The data of a set_color call is an RGBA array with one row per vertex.
IsVertexRgba(data) == data # None /\ data.ndim = 2 /\ Len(data.val) = Len(vertices) /\ \A i \in 1..Len(data.val) : Len(data.val[i]) = 4

C10_NoneClearsCamera ==
    [][/\ (last'.op = "set_camera" /\ last'.arg = NoCamera /\ camera # NoCamera) =>
            (camera' = NoCamera /\ camera_transform' = NullTransform)
       /\ (last'.op = "_prepare_draw" /\ last.op = "set_camera" /\ last.arg = NoCamera) =>
            \A i \in 1..Len(view_frag') : view_frag'[i] = light.position[i]]_vars

\* k quarter turns about z of a position.
QuarterTurns(k, p) ==
    CASE k % 4 = 0 -> p
      [] k % 4 = 1 -> <<0 - p[2], p[1], p[3]>>
      [] k % 4 = 2 -> <<0 - p[1], 0 - p[2], p[3]>>
      [] k % 4 = 3 -> <<p[2], 0 - p[1], p[3]>>

\* C10, amended: set_camera(None) leaves the binding as it is, and the
\* render preparation that follows it on a mesh bound to a camera pushes
\* the light position turned by that camera.
C10_NoneKeepsCamera ==
    [][/\ (last'.op = "set_camera" /\ last'.arg = NoCamera) => UNCHANGED <<camera, camera_transform>>
       /\ (last'.op = "_prepare_draw" /\ last.op = "set_camera" /\ last.arg = NoCamera /\ camera # NoCamera) =>
            view_frag' = QuarterTurns(cam_turns[camera], light.position)]_vars

\* C10 witness: a camera was bound and turned, set_camera(None) was called,
\* and the render preparation pushed the turned light position.
C10_Witness ==
    /\ last.op = "_prepare_draw"
    /\ last.arg = <<"set_camera", NoCamera>>
    /\ camera = "cam1"
    /\ cam_turns["cam1"] = 1
    /\ view_frag = <<0 - light.position[2], light.position[1], light.position[3]>>
    /\ view_frag # light.position

\* C11, as claimed: the light position a render preparation pushes has
\* three components: with no camera bound it is the stored light position,
\* with a camera bound it is the light position mapped by the camera.
C11_LightUniformHasThree ==
    last.op = "_prepare_draw" =>
        /\ Len(view_frag) = 3
        /\ camera = NoCamera => view_frag = light.position
        /\ camera # NoCamera => view_frag = QuarterTurns(cam_turns[camera], light.position)

\* C12: a render preparation leaves the stored light position, the other
\* light fields, the camera binding and the geometry as they were; a
\* preparation right after another pushes the same light position; and a
\* turn of the bound camera after a preparation leaves the stored light
\* position alone while the next preparation pushes another value.
C12_PrepareIsPure ==
    [][/\ last'.op = "_prepare_draw" =>
            /\ UNCHANGED <<light, shared, camera, camera_transform, cam_turns, meshvars, lookvars>>
            /\ last.op = "_prepare_draw" => view_frag' = view_frag
       /\ (last'.op = "rotate" /\ last'.arg = camera /\ last.op = "_prepare_draw") =>
            /\ light' = light
            /\ prepare_light_position' # view_frag]_vars

\* C12 witness: a preparation after a turn of the bound camera pushed the
\* turned position, and the stored light position is the constructor's.
C12_Witness ==
    /\ last.op = "_prepare_draw"
    /\ last.arg[1] = "rotate"
    /\ camera = "cam2"
    /\ cam_turns["cam2"] = 1
    /\ light.position = <<100, 100, 100>>
    /\ view_frag = <<0 - 100, 100, 100>>

\* The calls that write a buffer or draw from the buffers.
BufferCalls == {"draw", "set_data", "set_color", "set_alpha", "hemisphere"}

\* C13, as claimed: once clean() has run, every draw and every
\* buffer-writing setter fails.
C13_ReleasedRejects == (released /\ last.op \in BufferCalls) => ~last.ok

\* The setters C14 names.
SetterCalls == {"set_data", "set_color", "set_alpha", "hemisphere", "translucent", "alpha", "light_position", "light_color", "light_intensity", "coef_ambient", "coef_specular", "set_camera"}

\* What the call `last` has pushed, in the state it returns in.
Pushed ==
    CASE last.op = "set_data" -> vert_buffer = vertices /\ Len(normals_buffer) = Len(vertices) /\ IsViewOf(index_buffer, Kept(last.arg.value))
      [] last.op = "set_color" -> last.arg.data = None => \A i \in 1..Len(vertices) : color_buffer[i] = color2vb(last.arg.color, 1).val[1]
      [] last.op = "set_alpha" -> \A i \in 1..Len(color_buffer) : color_buffer[i][4] = last.arg.alpha
      [] last.op = "hemisphere" -> hemisphere = last.arg /\ IsViewOf(index_buffer, Kept(last.arg))
      [] last.op = "translucent" -> translucent = last.arg.val /\ gl_state.depth_test = ~last.arg.val /\ shared.u_alpha = alpha
      [] last.op = "alpha" -> shared.u_alpha = alpha /\ alpha = (IF translucent THEN Min(NumVal(last.arg), AlphaCeil) ELSE AlphaOpaque)
      [] last.op = "light_position" -> light.position = last.arg /\ shared.u_light_position = last.arg
      [] last.op = "light_color" -> light.color = last.arg /\ shared.u_light_color = last.arg
      [] last.op = "light_intensity" -> light.intensity = last.arg /\ shared.u_light_intensity = last.arg
      [] last.op = "coef_ambient" -> light.coef_ambient = NumVal(last.arg) /\ shared.u_coef_ambient = NumVal(last.arg)
      [] last.op = "coef_specular" -> light.coef_specular = NumVal(last.arg) /\ shared.u_coef_specular = NumVal(last.arg)
      [] last.op = "set_camera" -> camera = last.arg /\ camera_transform = last.arg

\* The quarter turns of the bound camera, none when no camera is bound.
BoundTurns == IF camera = NoCamera THEN 0 ELSE cam_turns[camera]

\* C14: a successful setter (set_camera with a camera) returns with its
\* value pushed and a redraw requested, and the frame drawn next takes its
\* light position from the values stored then, the camera and the light
\* position set last.
C14_SetterReachesNextFrame ==
    [][/\ (last'.ok /\ last'.op \in SetterCalls /\ ~(last'.op = "set_camera" /\ last'.arg = NoCamera)) => (dirty' /\ Pushed')
       /\ last'.op = "draw" =>
            /\ Len(view_frag') >= 2
            /\ \A i \in 1..Len(view_frag') : view_frag'[i] = QuarterTurns(BoundTurns, light.position)[i]
            /\ (last.op = "light_position" /\ last.ok) => \A i \in 1..Len(view_frag') : view_frag'[i] = QuarterTurns(BoundTurns, last.arg)[i]]_vars

\* C14 witness: a light color set after a frame was drawn requested a
\* redraw.
C14_Witness == last.op = "light_color" /\ last.ok /\ last.arg = <<1, 0, 0, 1>> /\ view_frag # <<>> /\ dirty /\ shared.u_light_color = <<1, 0, 0, 1>>

\* The sum of the x-coordinates of the first k vertices.
RECURSIVE SumX(_)
SumX(k) == IF k = 0 THEN 0 ELSE SumX(k - 1) + vertices[k][1]

\* The flags of the last set_data call were given with one flag per vertex.
FlagsGiven == last.arg.lr # None /\ Len(last.arg.lr.val) = Len(vertices)

C16_ViewFollowsGeometry ==
    (last.ok /\ last.op \in {"__init__", "set_data", "hemisphere"}) =>
        /\ IsViewOf(index_buffer, Kept(hemisphere))
        /\ \A i \in 1..Len(index_buffer) : \A k \in 1..3 : index_buffer[i][k] < Len(vertices)
        /\ last.op = "set_data" => hemisphere = last.arg.value

\* C16 witness: a mesh showing its left faces got a geometry of fewer
\* vertices by a set_data call with the default mode, and shows every face.
C16_Witness ==
    /\ last.op = "set_data" /\ last.ok /\ last.arg.value = "both"
    /\ Len(vertices) < MaxVerts
    /\ hemisphere = "both"
    /\ index_buffer = faces
    /\ Len(faces) > 0

====
